---------------------------- MODULE Spec2Model ----------------------------
(***************************************************************************)
(* Model of the rsa library (src/lib/rsa/src/math.rs, cryptosystem.rs):    *)
(* the number-theory primitives as operators computed the way the code     *)
(* computes them, and key generation and the per-message operations as a   *)
(* state machine whose random draws are nondeterministic choices.          *)
(***************************************************************************)
EXTENDS Integers, Sequences, FiniteSets, TLC

VARIABLES
    pc,        \* position of the call: "call", "returned", "panicked", ...
    entry,     \* the public function the caller entered
    a, b,      \* the two arguments of a number-theory primitive
    ret,       \* the value a primitive or generate_random_prime returned
    keybits,   \* generate_random_key's argument
    bits,      \* generate_random_prime's argument
    callsite,  \* who called generate_random_prime: "top", "p" or "q"
    prime,     \* generate_random_prime's loop variable
    p, q,      \* the primes handed to generate_keypair
    e,         \* rsa_make_e's loop variable
    key,       \* the RSAKey (n, e, d)
    msg,       \* the message given to encrypt or sign
    out,       \* the ciphertext or signature
    back       \* the decrypted or verified value

vars == <<pc, entry, a, b, ret, keybits, bits, callsite, prime, p, q, e, key,
          msg, out, back>>

---------------------------------------------------------------------------
(* Bounds of the model *)

\* Arguments of the number-theory primitives range over 0..MaxArg.
MaxArg == 12

\* generate_random_prime is entered with bits in 0..MaxBits.
MaxBits == 3

\* generate_keypair is entered with primes up to MaxPrime.
MaxPrime == 12

\* Under FairSpecPrime generate_random_prime runs with bits in
\* 0..MaxLoopBits.
MaxLoopBits == 4

---------------------------------------------------------------------------
(* The big-integer substrate (num_bigint) *)

Abs(x) == IF x < 0 THEN -x ELSE x

\* BigInt's `/` truncates toward zero.
Div(x, y) ==
    IF (x >= 0) = (y >= 0) THEN Abs(x) \div Abs(y) ELSE -(Abs(x) \div Abs(y))

\* BigInt's `%` is the remainder of the truncating division.
Rem(x, y) == x - y * Div(x, y)

RECURSIVE Pow(_, _)
Pow(x, k) == IF k = 0 THEN 1 ELSE x * Pow(x, k - 1)

\* base.modpow(exp, m) for exp >= 0 and m > 0: square and multiply.
RECURSIVE modpow(_, _, _)
modpow(base, exp, m) ==
    IF exp = 0 THEN 1 % m
    ELSE LET h == modpow(base, exp \div 2, m)
             s == (h * h) % m
         IN  IF exp % 2 = 1 THEN (s * (base % m)) % m ELSE s

---------------------------------------------------------------------------
(* math.rs *)

\* factor_power_2's loop; never returns for n = 0.
RECURSIVE factor_power_2_loop(_, _)
factor_power_2_loop(n, k) ==
    IF Rem(n, 2) = 0 THEN factor_power_2_loop(Div(n, 2), k + 1) ELSE <<n, k>>

factor_power_2(n) == factor_power_2_loop(n, 0)

\* gcd's (r0, r1) after the swap.
gcd_r0(x, y) == IF x < y THEN y ELSE x
gcd_r1(x, y) == IF x < y THEN x ELSE y

\* `&r0 % &r1` divides by zero when the smaller argument is 0.
gcd_panics(x, y) == gcd_r1(x, y) = 0

RECURSIVE gcd_loop(_, _)
gcd_loop(r0, r1) ==
    LET r2 == Rem(r0, r1)
    IN  IF r2 # 0 THEN gcd_loop(r1, r2) ELSE r1

\* gcd returning r0, the last dividend, instead of r1.
RECURSIVE gcd_loop_r0(_, _)
gcd_loop_r0(r0, r1) ==
    LET r2 == Rem(r0, r1)
    IN  IF r2 # 0 THEN gcd_loop_r0(r1, r2) ELSE r0

gcd_returns_r0(x, y) == gcd_loop_r0(gcd_r0(x, y), gcd_r1(x, y))

gcd(x, y) == gcd_loop(gcd_r0(x, y), gcd_r1(x, y))

RECURSIVE multiplicative_inverse_loop(_, _, _, _)
multiplicative_inverse_loop(r0, r1, t0, t1) ==
    IF r1 # 0
    THEN LET qq == Div(r0, r1)
             r2 == r0 - qq * r1
             t2 == t0 - qq * t1
         IN  multiplicative_inverse_loop(r1, r2, t1, t2)
    ELSE t0

\* multiplicative_inverse without the swap of lines 140-142.
multiplicative_inverse_noswap(x, y) ==
    LET t0 == multiplicative_inverse_loop(x, y, 0, 1)
    IN  IF t0 < 0 THEN t0 + y ELSE t0

multiplicative_inverse(x, y) ==
    LET t0 == multiplicative_inverse_loop(gcd_r0(x, y), gcd_r1(x, y), 0, 1)
    IN  IF t0 < 0 THEN t0 + y ELSE t0

\* miller_test's `for counter in 0..s`.
RECURSIVE miller_loop(_, _, _, _, _)
miller_loop(n, base, t, s, counter) ==
    IF counter < s
    THEN IF modpow(base, Pow(2, counter) * t, n) = n - 1
         THEN TRUE
         ELSE miller_loop(n, base, t, s, counter + 1)
    ELSE FALSE

\* miller_test for n >= 2 (n = 1 never leaves factor_power_2, n = 0 panics).
miller_test(n, base) ==
    LET ts == factor_power_2(n - 1)
        t  == ts[1]
        s  == ts[2]
        x  == modpow(base, t, n)
    IN  IF x = 1 \/ x = n - 1 THEN TRUE ELSE miller_loop(n, base, t, s, 0)

\* is_prime's `while b < max_miller_bases`.
RECURSIVE is_prime_loop(_, _, _)
is_prime_loop(n, base, max_miller_bases) ==
    IF base < max_miller_bases
    THEN IF ~miller_test(n, base)
         THEN FALSE
         ELSE is_prime_loop(n, base + 1, max_miller_bases)
    ELSE TRUE

is_prime(n, max_miller_bases) ==
    IF n < 2 THEN FALSE
    ELSE IF n = 2 THEN TRUE
    ELSE IF Rem(n, 2) = 0 THEN FALSE
    ELSE is_prime_loop(n, 2, max_miller_bases)

---------------------------------------------------------------------------
(* Calls of the number-theory primitives *)

NoKey == [n |-> 0, e |-> 0, d |-> 0]

\* The variables of key generation, untouched by a primitive's call.
keyVars == <<keybits, bits, callsite, prime, p, q, e, key, msg, out, back>>

MathFns == {"factor_power_2", "gcd", "multiplicative_inverse", "miller_test",
            "is_prime"}

InitMath ==
    /\ pc = "call"
    /\ entry \in MathFns
    /\ a \in 0..MaxArg
    /\ b \in 0..MaxArg
    /\ ret = 0
    /\ keybits = 0 /\ bits = 0 /\ callsite = "top" /\ prime = 0
    /\ p = 0 /\ q = 0 /\ e = 0 /\ key = NoKey
    /\ msg = 0 /\ out = 0 /\ back = 0

Call_factor_power_2 ==
    /\ pc = "call" /\ entry = "factor_power_2"
    /\ IF a = 0
       THEN pc' = "diverged" /\ ret' = ret
       ELSE pc' = "returned" /\ ret' = factor_power_2(a)
    /\ UNCHANGED <<entry, a, b, keyVars>>

Call_gcd ==
    /\ pc = "call" /\ entry = "gcd"
    /\ IF gcd_panics(a, b)
       THEN pc' = "panicked" /\ ret' = ret
       ELSE pc' = "returned" /\ ret' = gcd(a, b)
    /\ UNCHANGED <<entry, a, b, keyVars>>

Call_multiplicative_inverse ==
    /\ pc = "call" /\ entry = "multiplicative_inverse"
    /\ pc' = "returned"
    /\ ret' = multiplicative_inverse(a, b)
    /\ UNCHANGED <<entry, a, b, keyVars>>

\* miller_test(n = a, b): modpow panics on the exponent -1 and the modulus 0
\* when n = 0; factor_power_2(0) never returns when n = 1.
Call_miller_test ==
    /\ pc = "call" /\ entry = "miller_test"
    /\ IF a = 0 THEN pc' = "panicked" /\ ret' = ret
       ELSE IF a = 1 THEN pc' = "diverged" /\ ret' = ret
       ELSE pc' = "returned" /\ ret' = miller_test(a, b)
    /\ UNCHANGED <<entry, a, b, keyVars>>

\* is_prime(p = a, max_miller_bases = b)
Call_is_prime ==
    /\ pc = "call" /\ entry = "is_prime"
    /\ pc' = "returned"
    /\ ret' = is_prime(a, b)
    /\ UNCHANGED <<entry, a, b, keyVars>>

NextMath ==
    \/ Call_factor_power_2
    \/ Call_gcd
    \/ Call_multiplicative_inverse
    \/ Call_miller_test
    \/ Call_is_prime

SpecMath == InitMath /\ [][NextMath]_vars

---------------------------------------------------------------------------
(* cryptosystem.rs, and generate_random_prime's loop *)

\* gen_bigint with a magnitude one bit short.
gen_bigint_one_bit_short(n) ==
    (-((Pow(2, n) \div 2) - 1))..((Pow(2, n) \div 2) - 1)

\* rng.gen_bigint(bits): a sign and a magnitude below 2^bits.
gen_bigint(n) == (-(Pow(2, n) - 1))..(Pow(2, n) - 1)

\* The body of generate_random_prime's loop after the draw r.
candidate_skip_odd(r) == IF r < 0 THEN -r ELSE r

candidate(r) ==
    LET x == IF r < 0 THEN -r ELSE r
    IN  IF Rem(x, 2) = 0 THEN x + 1 ELSE x

phi_n(x, y) == (x - 1) * (y - 1)

\* rng.gen_bigint_range(2, phi_n): asserts 2 < phi_n.
gen_bigint_range(x, y) == 2..(phi_n(x, y) - 1)

\* rsa_make_e's loop ends on the draw c.
rsa_make_e_accepts(c, x, y) == gcd(c, phi_n(x, y)) = 1

RSAKey(n, ee, d) == [n |-> n, e |-> ee, d |-> d]

\* generate_keypair with the e that rsa_make_e returned.
generate_keypair(x, y, ee) ==
    RSAKey(x * y, ee, multiplicative_inverse(ee, phi_n(x, y)))

\* modpow's arguments exchanged.
encrypt_swapped(k, m) == modpow(m, k.n, k.e)

encrypt(k, m) == modpow(m, k.e, k.n)

\* decrypt with the public exponent.
decrypt_with_e(k, c) == modpow(c, k.e, k.n)

decrypt(k, c) == modpow(c, k.d, k.n)

sign(k, m) == modpow(m, k.d, k.n)

verify(k, s) == modpow(s, k.e, k.n)

---------------------------------------------------------------------------
(* Key generation and the per-message operations *)

Primes == {n \in 2..MaxPrime : \A d \in 2..(n - 1) : n % d # 0}

InitKey ==
    /\ pc = "call"
    /\ \/ /\ entry = "generate_random_prime"
          /\ bits \in 0..MaxBits
          /\ keybits = 0 /\ p = 0 /\ q = 0
       \/ /\ entry = "generate_random_key"
          /\ keybits \in 0..(2 * MaxBits + 1)
          /\ bits = 0 /\ p = 0 /\ q = 0
       \/ /\ entry = "generate_keypair"
          /\ p \in Primes /\ q \in Primes
          /\ keybits = 0 /\ bits = 0
    /\ callsite = "top" /\ prime = 0
    /\ a = 0 /\ b = 0 /\ ret = 0
    /\ e = 0 /\ key = NoKey
    /\ msg = 0 /\ out = 0 /\ back = 0

\* generate_random_prime(bits) called by the user: lines 306-310.
Enter_generate_random_prime ==
    /\ pc = "call" /\ entry = "generate_random_prime"
    /\ pc' = "prime_loop"
    /\ prime' = 0
    /\ callsite' = "top"
    /\ UNCHANGED <<entry, a, b, ret, keybits, bits, p, q, e, key, msg, out, back>>

\* generate_random_key(bits): halves bits and calls generate_random_prime.
Enter_generate_random_key ==
    /\ pc = "call" /\ entry = "generate_random_key"
    /\ bits' = keybits \div 2
    /\ pc' = "prime_loop"
    /\ prime' = 0
    /\ callsite' = "p"
    /\ UNCHANGED <<entry, a, b, ret, keybits, p, q, e, key, msg, out, back>>

\* One iteration of `while !is_prime(&prime, bases)`.
DrawCandidate ==
    /\ pc = "prime_loop"
    /\ ~is_prime(prime, bits)
    /\ \E r \in gen_bigint(bits) : prime' = candidate(r)
    /\ UNCHANGED <<pc, entry, a, b, ret, keybits, bits, callsite, p, q, e, key,
                   msg, out, back>>

\* The loop ends and generate_random_prime returns to the user.
ReturnPrime ==
    /\ pc = "prime_loop" /\ callsite = "top"
    /\ is_prime(prime, bits)
    /\ ret' = prime
    /\ pc' = "returned"
    /\ UNCHANGED <<entry, a, b, keybits, bits, callsite, prime, p, q, e, key,
                   msg, out, back>>

\* The first call returns p; generate_random_key calls again for q.
ReturnP ==
    /\ pc = "prime_loop" /\ callsite = "p"
    /\ is_prime(prime, bits)
    /\ p' = prime
    /\ prime' = 0
    /\ callsite' = "q"
    /\ UNCHANGED <<pc, entry, a, b, ret, keybits, bits, q, e, key, msg, out, back>>

\* The second call returns q; generate_random_key calls generate_keypair.
ReturnQ ==
    /\ pc = "prime_loop" /\ callsite = "q"
    /\ is_prime(prime, bits)
    /\ q' = prime
    /\ pc' = "make_e"
    /\ UNCHANGED <<entry, a, b, ret, keybits, bits, callsite, prime, p, e, key,
                   msg, out, back>>

\* generate_keypair(p, q) called by the user.
Enter_generate_keypair ==
    /\ pc = "call" /\ entry = "generate_keypair"
    /\ pc' = "make_e"
    /\ UNCHANGED <<entry, a, b, ret, keybits, bits, callsite, prime, p, q, e, key,
                   msg, out, back>>

\* gen_bigint_range(2, phi_n) panics on an empty range.
RsaMakeE_Panic ==
    /\ pc = "make_e"
    /\ phi_n(p, q) <= 2
    /\ pc' = "panicked"
    /\ UNCHANGED <<entry, a, b, ret, keybits, bits, callsite, prime, p, q, e, key,
                   msg, out, back>>

\* A draw of rsa_make_e that is not coprime to phi_n: the loop goes on.
RsaMakeE_Retry ==
    /\ pc = "make_e"
    /\ \E c \in gen_bigint_range(p, q) :
          /\ ~rsa_make_e_accepts(c, p, q)
          /\ e' = c
    /\ UNCHANGED <<pc, entry, a, b, ret, keybits, bits, callsite, prime, p, q, key,
                   msg, out, back>>

\* The accepted draw: rsa_make_e returns it and generate_keypair builds the key.
RsaMakeE_Accept ==
    /\ pc = "make_e"
    /\ \E c \in gen_bigint_range(p, q) :
          /\ rsa_make_e_accepts(c, p, q)
          /\ e' = c
          /\ key' = generate_keypair(p, q, c)
    /\ pc' = "key"
    /\ UNCHANGED <<entry, a, b, ret, keybits, bits, callsite, prime, p, q,
                   msg, out, back>>

Encrypt ==
    /\ pc = "key"
    /\ \E m \in 0..key.n :
          /\ msg' = m
          /\ out' = encrypt(key, m)
    /\ pc' = "encrypted"
    /\ UNCHANGED <<entry, a, b, ret, keybits, bits, callsite, prime, p, q, e, key,
                   back>>

Decrypt ==
    /\ pc = "encrypted"
    /\ back' = decrypt(key, out)
    /\ pc' = "decrypted"
    /\ UNCHANGED <<entry, a, b, ret, keybits, bits, callsite, prime, p, q, e, key,
                   msg, out>>

Sign ==
    /\ pc = "key"
    /\ \E m \in 0..key.n :
          /\ msg' = m
          /\ out' = sign(key, m)
    /\ pc' = "signed"
    /\ UNCHANGED <<entry, a, b, ret, keybits, bits, callsite, prime, p, q, e, key,
                   back>>

Verify ==
    /\ pc = "signed"
    /\ back' = verify(key, out)
    /\ pc' = "verified"
    /\ UNCHANGED <<entry, a, b, ret, keybits, bits, callsite, prime, p, q, e, key,
                   msg, out>>

Next ==
    \/ Enter_generate_random_prime
    \/ Enter_generate_random_key
    \/ DrawCandidate
    \/ ReturnPrime
    \/ ReturnP
    \/ ReturnQ
    \/ Enter_generate_keypair
    \/ RsaMakeE_Panic
    \/ RsaMakeE_Retry
    \/ RsaMakeE_Accept
    \/ Encrypt
    \/ Decrypt
    \/ Sign
    \/ Verify

Spec == InitKey /\ [][Next]_vars

---------------------------------------------------------------------------
(* Reference notions the claims are stated with *)

Divides(d, n) == n % d = 0

\* The greatest common divisor of x >= 1 and y >= 1, by definition.
GcdTruth(x, y) ==
    LET common == {d \in 1..x : Divides(d, x) /\ Divides(d, y)}
    IN  CHOOSE g \in common : \A h \in common : h <= g

\* n is a prime number, by definition.
IsPrimeTruth(n) == n >= 2 /\ \A d \in 2..(n - 1) : ~Divides(d, n)

Odd(n) == n % 2 = 1

---------------------------------------------------------------------------
(* Claims about the number-theory primitives, under SpecMath *)

\* C2: for all positive a, b with gcd(a, b) = 1, in either size order,
\* r = multiplicative_inverse(a, b) satisfies (a * r) mod b = 1.  The right
\* side is reduced modulo b as the left side is, which changes nothing for
\* b >= 2 and reads the claim for b = 1 as the congruence a*r = 1 (mod 1).
C2_InverseOfCoprimePair ==
    (/\ entry = "multiplicative_inverse" /\ pc = "returned"
     /\ a >= 1 /\ b >= 1 /\ GcdTruth(a, b) = 1)
    => (a * ret) % b = 1 % b

\* C3: for odd n > 2 and a base b >= 2, miller_test(n, b) = false only if n
\* is composite; hence is_prime(p, max_miller_bases) is true for every prime
\* p and every max_miller_bases.
C3_FailingBaseProvesComposite ==
    /\ (/\ entry = "miller_test" /\ pc = "returned"
        /\ a > 2 /\ Odd(a) /\ b >= 2 /\ ret = FALSE)
       => ~IsPrimeTruth(a)
    /\ (entry = "is_prime" /\ pc = "returned" /\ IsPrimeTruth(a))
       => ret = TRUE

\* C4: for every a >= 0, gcd(a, 0) completes normally and returns a.
C4_GcdWithZero ==
    (entry = "gcd" /\ pc # "call" /\ b = 0)
    => (pc = "returned" /\ ret = a)

\* C5: for all positive a and b, gcd(a, b) terminates and returns the
\* greatest common divisor of a and b, the same value as gcd(b, a).
C5_GcdOfPositives ==
    (entry = "gcd" /\ pc # "call" /\ a >= 1 /\ b >= 1)
    => (pc = "returned" /\ ret = GcdTruth(a, b) /\ ret = gcd(b, a))

\* gcd(8, 12) returned 4: the swap is taken and the loop iterates.
C5_Witness ==
    entry = "gcd" /\ pc = "returned" /\ a = 8 /\ b = 12 /\ ret = 4

\* C9: for positive a, b with gcd(a, b) # 1, multiplicative_inverse(a, b)
\* returns 0.
C9_NoInverseReturnsZero ==
    (/\ entry = "multiplicative_inverse" /\ pc = "returned"
     /\ a >= 1 /\ b >= 1 /\ GcdTruth(a, b) # 1)
    => ret = 0

---------------------------------------------------------------------------
(* Claims about key generation and the RSA operations, under Spec *)

\* C1: for every key generate_keypair(p, q) returns when p and q are
\* distinct odd primes, and every message m with 0 <= m < n,
\* decrypt(encrypt(m)) = m and verify(sign(m)) = m.
C1_RoundTrip ==
    (/\ pc \in {"decrypted", "verified"}
     /\ IsPrimeTruth(p) /\ IsPrimeTruth(q) /\ Odd(p) /\ Odd(q) /\ p # q
     /\ msg < key.n)
    => back = msg

\* A message that encryption changes has been encrypted and decrypted.
C1_Witness ==
    /\ pc = "decrypted"
    /\ IsPrimeTruth(p) /\ IsPrimeTruth(q) /\ Odd(p) /\ Odd(q) /\ p # q
    /\ msg < key.n /\ out # msg /\ back = msg

\* The value generate_random_prime(bits) returned is positive, odd and
\* passes is_prime with bits as max_miller_bases.
ReturnedPrimeOk(x) == x > 0 /\ Odd(x) /\ is_prime(x, bits) = TRUE

\* C6: whenever generate_random_prime(bits) returns, whatever the draws, the
\* value is positive, odd and satisfies is_prime(value, bits) = true.
C6_ReturnedPrime ==
    /\ (entry = "generate_random_prime" /\ pc = "returned")
       => ReturnedPrimeOk(ret)
    /\ (entry = "generate_random_key" /\ callsite = "q")
       => ReturnedPrimeOk(p)
    /\ (entry = "generate_random_key" /\ pc \notin {"call", "prime_loop"})
       => ReturnedPrimeOk(q)

\* generate_random_prime(3) returned 5.
C6_Witness ==
    entry = "generate_random_prime" /\ pc = "returned" /\ bits = 3 /\ ret = 5

\* C7: in every execution of generate_random_key(bits), the primes handed
\* to generate_keypair are distinct.
C7_DistinctPrimes ==
    (entry = "generate_random_key" /\ pc = "make_e") => p # q

\* C8: every key (n, e, d) generate_keypair(p, q) returns for primes p, q
\* has n = p*q, 1 < e < phi, gcd(e, phi) = 1, 0 < d < phi and
\* (e * d) mod phi = 1, where phi = (p-1)(q-1).
C8_KeyInvariants ==
    (/\ pc \in {"key", "encrypted", "decrypted", "signed", "verified"}
     /\ IsPrimeTruth(p) /\ IsPrimeTruth(q))
    => LET phi == (p - 1) * (q - 1)
       IN  /\ key.n = p * q
           /\ 1 < key.e /\ key.e < phi
           /\ GcdTruth(key.e, phi) = 1
           /\ 0 < key.d /\ key.d < phi
           /\ (key.e * key.d) % phi = 1

\* generate_keypair(7, 11) returned the key (77, 7, 43).
C8_Witness ==
    pc = "key" /\ p = 7 /\ q = 11 /\ key = [n |-> 77, e |-> 7, d |-> 43]

\* C10: for every key generate_keypair(5, 7) can return, encrypt(15) = 15
\* and decrypt(encrypt(15)) = 15.
C10_FifteenIsFixed ==
    (entry = "generate_keypair" /\ p = 5 /\ q = 7 /\ msg = 15)
    => /\ pc = "encrypted" => out = 15
       /\ pc = "decrypted" => (out = 15 /\ back = 15)

\* Under generate_keypair(5, 7) with e = 11, 15 was encrypted and decrypted.
C10_Witness ==
    /\ entry = "generate_keypair" /\ p = 5 /\ q = 7 /\ key.e = 11
    /\ pc = "decrypted" /\ msg = 15 /\ out = 15 /\ back = 15

---------------------------------------------------------------------------
(* generate_random_prime and its callers, with fair draws *)

\* is_prime gets past its early returns and calls miller_test on n.
is_prime_runs_miller(n, max_miller_bases) ==
    /\ ~(n < 2)
    /\ n # 2
    /\ Rem(n, 2) # 0
    /\ 2 < max_miller_bases

\* The n_minus_one that miller_test(n, _) hands to factor_power_2.
miller_test_n_minus_one(n) == n - 1

\* generate_random_prime is called by the user or by generate_random_key.
InitPrime ==
    /\ pc = "call"
    /\ \/ /\ entry = "generate_random_prime"
          /\ bits \in 0..MaxLoopBits
          /\ keybits = 0
       \/ /\ entry = "generate_random_key"
          /\ keybits \in 0..(2 * MaxLoopBits + 1)
          /\ bits = 0
    /\ p = 0 /\ q = 0
    /\ callsite = "top" /\ prime = 0
    /\ a = 0 /\ b = 0 /\ ret = 0
    /\ e = 0 /\ key = NoKey
    /\ msg = 0 /\ out = 0 /\ back = 0

\* The steps up to the return of generate_random_prime's last call.
NextPrime ==
    \/ Enter_generate_random_prime
    \/ Enter_generate_random_key
    \/ DrawCandidate
    \/ ReturnPrime
    \/ ReturnP
    \/ ReturnQ

\* The code runs on: a function is entered, and generate_random_prime leaves
\* its loop when the loop condition fails.  While it loops, a draw that
\* is_prime accepts happens if one stays possible: this is what drawing
\* every value of the bit-width again and again gives the loop, whose only
\* exit is such a draw.
FairDraws ==
    /\ WF_vars(Enter_generate_random_prime)
    /\ WF_vars(Enter_generate_random_key)
    /\ WF_vars(ReturnPrime)
    /\ WF_vars(ReturnP)
    /\ WF_vars(ReturnQ)
    /\ WF_vars(DrawCandidate /\ is_prime(prime', bits))

FairSpecPrime == InitPrime /\ [][NextPrime]_vars /\ FairDraws

---------------------------------------------------------------------------
(* Claim about generate_random_prime's termination, under FairSpecPrime *)

\* Whenever the loop of generate_random_prime evaluates is_prime on its
\* variable and miller_test is called, factor_power_2 is not given 0.
FactorPower2NeverGetsZero ==
    (pc = "prime_loop" /\ is_prime_runs_miller(prime, bits))
    => miller_test_n_minus_one(prime) # 0

\* The call of generate_random_prime made at callsite c is running.
PrimeCallRunning(c) == pc = "prime_loop" /\ callsite = c

\* Every running call of generate_random_prime with bits >= k returns.
EveryCallReturns(k) ==
    /\ (PrimeCallRunning("top") /\ bits >= k) ~> (pc = "returned")
    /\ (PrimeCallRunning("p") /\ bits >= k) ~> (callsite = "q")
    /\ (PrimeCallRunning("q") /\ bits >= k) ~> (pc = "make_e")

\* C11 as stated: under fair draws generate_random_prime(bits) eventually
\* returns for every bits >= 1, and factor_power_2 is never reached with 0.
C11_ReturnsForBitsFrom1 ==
    /\ [] FactorPower2NeverGetsZero
    /\ EveryCallReturns(1)

\* C11 amended: under fair draws generate_random_prime(bits) eventually
\* returns for every bits >= 2, and factor_power_2 is never reached with 0.
C11_ReturnsForBitsFrom2 ==
    /\ [] FactorPower2NeverGetsZero
    /\ EveryCallReturns(2)

\* generate_random_prime(4) returned 13 after miller_test ran on it.
C11_Witness ==
    /\ entry = "generate_random_prime" /\ pc = "returned"
    /\ bits = 4 /\ ret = 13 /\ is_prime_runs_miller(ret, bits)

===========================================================================
